---- MODULE Spec2Model ----
(***************************************************************************)
(* Model of runorbit.py: the command-line driver (__main__) and the class  *)
(* OrbitIntegrator (leapfrog integration of a test particle in a           *)
(* logarithmic potential, energy-conservation guard, plot and write).      *)
(*                                                                         *)
(* Python floats are modelled as fixed-point numbers: the integer v stands *)
(* for the real v / FP, every product and quotient is rounded to the       *)
(* nearest representable value, and np.log is a fixed-point logarithm.     *)
(***************************************************************************)
EXTENDS Integers, Sequences, FiniteSets, TLC

\* resolution of the fixed-point numbers: v stands for v / FP
FP == 1000
\* largest step count given on the command line
MaxNstep == 3

----------------------------------------------------------------------------
(* fixed-point arithmetic                                                  *)

Abs(a) == IF a < 0 THEN -a ELSE a

\* a / b rounded to the nearest integer (b > 0)
RDiv(a, b) == (2 * a + b) \div (2 * b)

FMul(a, b) == RDiv(a * b, FP)

FDiv(a, b) == RDiv(a * FP, b)

Half == FP \div 2

FSquare(a) == FMul(a, a)

Sum3(v) == v[1] + v[2] + v[3]

VAdd(u, v) == <<u[1] + v[1], u[2] + v[2], u[3] + v[3]>>

VScale(k, v) == <<FMul(k, v[1]), FMul(k, v[2]), FMul(k, v[3])>>

\* np.log: range reduction to [1, 2) by halving/doubling, then the series
\* ln m = 2 (z + z^3/3 + z^5/5 + z^7/7), z = (m - 1) / (m + 1)
LnSeries(m) ==
    LET z  == FDiv(m - FP, m + FP)
        z2 == FMul(z, z)
        z3 == FMul(z, z2)
        z5 == FMul(z3, z2)
        z7 == FMul(z5, z2)
    IN  2 * (z + RDiv(z3, 3) + RDiv(z5, 5) + RDiv(z7, 7))

RECURSIVE LnReduce(_, _)
LnReduce(m, k) ==
    IF m >= 2 * FP THEN LnReduce(RDiv(m, 2), k + 1)
    ELSE IF m < FP THEN LnReduce(2 * m, k - 1)
    ELSE k * LnSeries(2 * FP) + LnSeries(m)

Ln(m) == LnReduce(m, 0)

----------------------------------------------------------------------------
(* the potential model, the energy monitor and the leapfrog arithmetic     *)

Mu2(p, Rc, b, c) ==
    FSquare(Rc) + FSquare(p[1]) + FSquare(FDiv(p[2], b)) + FSquare(FDiv(p[3], c))

_potential(p, Rc, b, c) == FMul(Half, Ln(Mu2(p, Rc, b, c)))

_acceleration(p, Rc, b, c) ==
    LET mu2 == Mu2(p, Rc, b, c)
        w   == <<p[1], FDiv(p[2], FSquare(b)), FDiv(p[3], FSquare(c))>>
    IN  <<FDiv(-w[1], mu2), FDiv(-w[2], mu2), FDiv(-w[3], mu2)>>

_energy(p, v, Rc, b, c) ==
    FMul(Half, Sum3(<<FSquare(v[1]), FSquare(v[2]), FSquare(v[3])>>))
        + _potential(p, Rc, b, c)

\* vel + 0.5*dtime*acc
Kick(v, dt, a) == VAdd(v, VScale(FMul(Half, dt), a))

\* pos + dtime*vel
Drift(p, dt, v) == VAdd(p, VScale(dt, v))

\* tnow = dtime * n
TnowMut(dt, n) == dt * (n - 1)
Tnow(dt, n) == dt * n

\* np.abs(Einit - Enow) > detol
ViolatesMut(e0, e1, tol) == Abs(e0 - e1) >= tol
Violates(e0, e1, tol) == Abs(e0 - e1) > tol

----------------------------------------------------------------------------
(* text conversions                                                        *)

\* "%f" and "{:11.6f}": sign, integer part and six decimals
Fmt(v) ==
    [neg  |-> v < 0,
     int  |-> Abs(v) \div FP,
     frac |-> ((Abs(v) % FP) * 1000000) \div FP]

Header == <<"x", "y", "z", "time">>

FmtRow(s) == <<Fmt(s[1]), Fmt(s[2]), Fmt(s[3]), Fmt(s[4])>>

\* np.append(pos, t)
Sample(p, t) == <<p[1], p[2], p[3], t>>

Column(orb, i) == [k \in 1..Len(orb) |-> orb[k][i]]

----------------------------------------------------------------------------
(* command line                                                            *)

\* a flag is absent (<<>>) or given with one value (<<v>>)
Opt(S) == {<<>>} \cup {<<v>> : v \in S}

DefaultNstep == 25000

\* defaults of the argument parser, by destination name
ArgDefaults ==
    [pos   |-> <<FP, 0, 0>>,
     vel   |-> <<0, (4 * FP) \div 10, 0>>,
     nstep |-> DefaultNstep,
     dtime |-> FP \div 100,
     detol |-> FP \div 1000,
     R     |-> FP \div 5,
     b     |-> (9 * FP) \div 10,
     c     |-> (8 * FP) \div 10]

\* defaults of the keyword arguments of OrbitIntegrator
KwDefaults ==
    [pos   |-> <<FP, 0, 0>>,
     vel   |-> <<0, (4 * FP) \div 10, 0>>,
     nstep |-> DefaultNstep,
     dtime |-> FP \div 100,
     detol |-> FP \div 1000,
     Rc    |-> FP \div 5,
     b     |-> (9 * FP) \div 10,
     c     |-> (8 * FP) \div 10]

\* parser.parse_args() followed by vars(args)
ParseArgs(av) ==
    [f \in DOMAIN av |-> IF av[f] = <<>> THEN ArgDefaults[f] ELSE av[f][1]]

\* kwargs.pop(key, default)
Pop(kw, key) == IF key \in DOMAIN kw THEN kw[key] ELSE KwDefaults[key]

Planes == {<<"X", "Y">>, <<"Y", "Z">>, <<"X", "Z">>}

\* command lines explored
Argvs ==
    [pos   : Opt({<<0, 0, 0>>}),
     vel   : Opt({<<0, 0, 0>>, <<0, FP, 0>>}),
     nstep : {<<k>> : k \in (-1)..MaxNstep},
     dtime : Opt({0, FP \div 2}),
     detol : Opt({0}),
     R     : Opt({FP \div 2}),
     b     : Opt({FP}),
     c     : Opt({FP})]

----------------------------------------------------------------------------
VARIABLES
    pc,         \* position of the program
    argv,       \* the command line
    args,       \* vars(args): the parsed namespace
    self,       \* the fields of the OrbitIntegrator object
    pos, vel,   \* locals of __init__: the phase-space state
    nstep, detol, Einit,
    it,         \* next value of xrange(1, nstep+1)
    n, tnow, Enow,
    assigned,   \* which of the loop's locals are bound
    aborted,    \* the loop was left by break
    lpos, lvel, acc,  \* locals of _leapstep
    calls,      \* the calls made in the current iteration of the loop
    stdout,     \* the lines printed
    figure,     \* the plot calls, axis labels and title of the current figure
    files       \* the files written

vars == <<pc, argv, args, self, pos, vel, nstep, detol, Einit, it, n, tnow,
          Enow, assigned, aborted, lpos, lvel, acc, calls, stdout, figure,
          files>>

driver == <<pos, vel, nstep, detol, Einit>>
loopv  == <<it, n, tnow, Enow, assigned, aborted>>
leapv  == <<lpos, lvel, acc>>
outv   == <<stdout, figure, files>>

Zero3 == <<0, 0, 0>>

NoFigure == [plots |-> <<>>, xlabel |-> "", ylabel |-> "", title |-> <<>>]

Init ==
    /\ pc = "parse"
    /\ argv \in Argvs
    /\ args = <<>>
    /\ self = [dtime |-> 0, Rc |-> 0, b |-> 0, c |-> 0, vy |-> 0, orbit |-> <<>>]
    /\ pos = Zero3 /\ vel = Zero3
    /\ nstep = 0 /\ detol = 0 /\ Einit = 0
    /\ it = 1 /\ n = 0 /\ tnow = 0 /\ Enow = 0
    /\ assigned = {}
    /\ aborted = FALSE
    /\ lpos = Zero3 /\ lvel = Zero3 /\ acc = Zero3
    /\ calls = <<>>
    /\ stdout = <<>>
    /\ figure = NoFigure
    /\ files = <<>>

\* lines 89-98: parse the command line
Parse ==
    /\ pc = "parse"
    /\ args' = ParseArgs(argv)
    /\ pc' = "construct"
    /\ UNCHANGED <<argv, self, driver, loopv, leapv, calls, outv>>

\* lines 12-27: pop the keyword arguments, compute Einit, store the first sample
Construct ==
    /\ pc = "construct"
    /\ LET p  == Pop(args, "pos")
           v  == Pop(args, "vel")
           Rc == Pop(args, "Rc")
           b  == Pop(args, "b")
           c  == Pop(args, "c")
       IN  /\ pos' = p
           /\ vel' = v
           /\ nstep' = Pop(args, "nstep")
           /\ detol' = Pop(args, "detol")
           /\ Einit' = _energy(p, v, Rc, b, c)
           /\ self' = [dtime |-> Pop(args, "dtime"), Rc |-> Rc, b |-> b,
                       c |-> c, vy |-> v[2], orbit |-> <<Sample(p, 0)>>]
    /\ it' = 1
    /\ pc' = "for"
    /\ UNCHANGED <<argv, args, n, tnow, Enow, assigned, aborted, leapv, calls, outv>>

\* line 30: for n in xrange(1, nstep+1)
ForNext ==
    /\ pc = "for"
    /\ IF it <= nstep
       THEN /\ n' = it
            /\ it' = it + 1
            /\ assigned' = assigned \cup {"n"}
            /\ calls' = <<>>
            /\ pc' = "acc0"
       ELSE /\ pc' = "report"
            /\ UNCHANGED <<n, it, assigned, calls>>
    /\ UNCHANGED <<argv, args, self, driver, tnow, Enow, aborted, leapv, outv>>

\* line 66: acc = self._acceleration(pos)
LeapAcc0 ==
    /\ pc = "acc0"
    /\ lpos' = pos
    /\ lvel' = vel
    /\ acc' = _acceleration(pos, self.Rc, self.b, self.c)
    /\ calls' = Append(calls, "_acceleration")
    /\ pc' = "kick1"
    /\ UNCHANGED <<argv, args, self, driver, loopv, outv>>

\* line 67: vel = vel + 0.5*self.dtime*acc
LeapKick1 ==
    /\ pc = "kick1"
    /\ lvel' = Kick(lvel, self.dtime, acc)
    /\ calls' = Append(calls, "kick")
    /\ pc' = "drift"
    /\ UNCHANGED <<argv, args, self, driver, loopv, lpos, acc, outv>>

\* line 68 with the velocity the step was entered with
LeapDriftOrigVel ==
    /\ pc = "drift"
    /\ lpos' = Drift(lpos, self.dtime, vel)
    /\ calls' = Append(calls, "drift")
    /\ pc' = "acc1"
    /\ UNCHANGED <<argv, args, self, driver, loopv, lvel, acc, outv>>

\* line 68: pos = pos + self.dtime*vel
LeapDrift ==
    /\ pc = "drift"
    /\ lpos' = Drift(lpos, self.dtime, lvel)
    /\ calls' = Append(calls, "drift")
    /\ pc' = "acc1"
    /\ UNCHANGED <<argv, args, self, driver, loopv, lvel, acc, outv>>

\* line 69: acc = self._acceleration(pos)
LeapAcc1 ==
    /\ pc = "acc1"
    /\ acc' = _acceleration(lpos, self.Rc, self.b, self.c)
    /\ calls' = Append(calls, "_acceleration")
    /\ pc' = "kick2"
    /\ UNCHANGED <<argv, args, self, driver, loopv, lpos, lvel, outv>>

\* lines 70-71 and 31: complete the velocity step, return, pos,vel = ...
LeapKick2 ==
    /\ pc = "kick2"
    /\ lvel' = Kick(lvel, self.dtime, acc)
    /\ pos' = lpos
    /\ vel' = lvel'
    /\ calls' = Append(calls, "kick")
    /\ pc' = "energy"
    /\ UNCHANGED <<argv, args, self, nstep, detol, Einit, loopv, lpos, acc, outv>>

\* lines 32-33: tnow = self.dtime * n; Enow = self._energy(pos, vel)
Energy ==
    /\ pc = "energy"
    /\ tnow' = Tnow(self.dtime, n)
    /\ Enow' = _energy(pos, vel, self.Rc, self.b, self.c)
    /\ assigned' = assigned \cup {"tnow", "Enow"}
    /\ calls' = Append(calls, "_energy")
    /\ pc' = "check"
    /\ UNCHANGED <<argv, args, self, driver, it, n, aborted, leapv, outv>>

ViolationReport(e0, t, e1) ==
    [kind |-> "violation", Einit |-> Fmt(e0), t |-> Fmt(t), Enow |-> Fmt(e1),
     dE |-> Fmt(e0 - e1)]

FinalReport(e0, t, e1) ==
    [kind |-> "final", Einit |-> Fmt(e0), t |-> Fmt(t), Enow |-> Fmt(e1)]

\* lines 34-38 without the break
CheckEnergyNoBreak ==
    /\ pc = "check"
    /\ IF Violates(Einit, Enow, detol)
       THEN /\ stdout' = Append(stdout, ViolationReport(Einit, tnow, Enow))
            /\ aborted' = TRUE
            /\ pc' = "for"
            /\ UNCHANGED self
       ELSE /\ self' = [self EXCEPT !.orbit = Append(@, Sample(pos, tnow))]
            /\ pc' = "for"
            /\ UNCHANGED <<stdout, aborted>>
    /\ UNCHANGED <<argv, args, driver, it, n, tnow, Enow, assigned, leapv,
                   calls, figure, files>>

\* lines 34-38 with the sample saved before the test
CheckEnergySaveFirst ==
    /\ pc = "check"
    /\ self' = [self EXCEPT !.orbit = Append(@, Sample(pos, tnow))]
    /\ IF Violates(Einit, Enow, detol)
       THEN /\ stdout' = Append(stdout, ViolationReport(Einit, tnow, Enow))
            /\ aborted' = TRUE
            /\ pc' = "report"
       ELSE /\ pc' = "for"
            /\ UNCHANGED <<stdout, aborted>>
    /\ UNCHANGED <<argv, args, driver, it, n, tnow, Enow, assigned, leapv,
                   calls, figure, files>>

\* lines 34-38: test energy conservation; break, or save position and time
CheckEnergy ==
    /\ pc = "check"
    /\ IF Violates(Einit, Enow, detol)
       THEN /\ stdout' = Append(stdout, ViolationReport(Einit, tnow, Enow))
            /\ aborted' = TRUE
            /\ pc' = "report"
            /\ UNCHANGED self
       ELSE /\ self' = [self EXCEPT !.orbit = Append(@, Sample(pos, tnow))]
            /\ pc' = "for"
            /\ UNCHANGED <<stdout, aborted>>
    /\ UNCHANGED <<argv, args, driver, it, n, tnow, Enow, assigned, leapv,
                   calls, figure, files>>

\* line 39 with tnow and Enow bound before the loop
ReportBoundLocals ==
    /\ pc = "report"
    /\ stdout' = Append(stdout, FinalReport(Einit, tnow, Enow))
    /\ pc' = "plot"
    /\ UNCHANGED <<argv, args, self, driver, loopv, leapv, calls, figure, files>>

\* line 39: print the final report; an unbound tnow or Enow raises
Report ==
    /\ pc = "report"
    /\ IF {"tnow", "Enow"} \subseteq assigned
       THEN /\ stdout' = Append(stdout, FinalReport(Einit, tnow, Enow))
            /\ pc' = "plot"
       ELSE /\ pc' = "error"
            /\ UNCHANGED stdout
    /\ UNCHANGED <<argv, args, self, driver, loopv, leapv, calls, figure, files>>

PlotCall(orb, i, j) ==
    [h |-> i, v |-> j, xs |-> Column(orb, i), ys |-> Column(orb, j)]

\* lines 41-51: plot(plane); the dict literal evaluates its three values
Plot ==
    /\ pc = "plot"
    /\ \E plane \in Planes :
         figure' = [plots  |-> <<PlotCall(self.orbit, 1, 2),
                                PlotCall(self.orbit, 2, 3),
                                PlotCall(self.orbit, 1, 3)>>,
                    xlabel |-> plane[1],
                    ylabel |-> plane[2],
                    title  |-> <<self.vy>>]
    /\ pc' = "savefig"
    /\ UNCHANGED <<argv, args, self, driver, loopv, leapv, calls, stdout, files>>

\* "RunOrbit/vy_" + str(args.vel[1]).replace('.', ',')
Fname(a) == <<"RunOrbit", "vy_", a.vel[2] \div FP, ",", Abs(a.vel[2]) % FP>>

\* lines 103-106: create the directory, save the figure
SaveFig ==
    /\ pc = "savefig"
    /\ files' = Append(files, [name |-> Fname(args), ext |-> ".png",
                               content |-> <<figure>>])
    /\ pc' = "write"
    /\ UNCHANGED <<argv, args, self, driver, loopv, leapv, calls, stdout, figure>>

\* lines 53-57 with the loop over self.orbit[1:]
WriteSkipFirst ==
    /\ pc = "write"
    /\ files' = Append(files,
                  [name |-> Fname(args), ext |-> ".dat",
                   content |-> <<Header>> \o
                       [i \in 1..(Len(self.orbit) - 1) |-> FmtRow(self.orbit[i + 1])]])
    /\ pc' = "done"
    /\ UNCHANGED <<argv, args, self, driver, loopv, leapv, calls, stdout, figure>>

\* lines 53-57 and 107: write(file): the header, then one row per sample
Write ==
    /\ pc = "write"
    /\ files' = Append(files,
                  [name |-> Fname(args), ext |-> ".dat",
                   content |-> <<Header>> \o
                       [i \in 1..Len(self.orbit) |-> FmtRow(self.orbit[i])]])
    /\ pc' = "done"
    /\ UNCHANGED <<argv, args, self, driver, loopv, leapv, calls, stdout, figure>>

Next ==
    \/ Parse
    \/ Construct
    \/ ForNext
    \/ LeapAcc0
    \/ LeapKick1
    \/ LeapDrift
    \/ LeapAcc1
    \/ LeapKick2
    \/ Energy
    \/ CheckEnergy
    \/ Report
    \/ Plot
    \/ SaveFig
    \/ Write

Spec == Init /\ [][Next]_vars

----------------------------------------------------------------------------
(* the states of the driver                                                *)

InitPcs == {"parse", "construct"}

StepPcs == {"acc0", "kick1", "drift", "acc1", "kick2", "energy", "check"}

LoopPcs == StepPcs \cup {"for"}

\* __init__ has returned
ReturnedPcs == {"plot", "savefig", "write", "done"}

\* the loop has been left, by exhaustion or by break
EndedPcs == ReturnedPcs \cup {"report", "error"}

Aborted == pc \in EndedPcs /\ aborted

Completed == pc \in EndedPcs /\ ~aborted /\ "n" \in assigned /\ n = nstep

\* steps whose energy test has passed
StepsAccepted ==
    IF "n" \notin assigned THEN 0
    ELSE IF pc \in StepPcs \/ aborted THEN n - 1
    ELSE n

ViolationReports == {i \in 1..Len(stdout) : stdout[i].kind = "violation"}

FinalReports == {i \in 1..Len(stdout) : stdout[i].kind = "final"}

IsPrefix(s, t) == Len(s) <= Len(t) /\ \A i \in 1..Len(s) : s[i] = t[i]

\* the value of a flag as given on the command line, else its default
Given(f) == IF argv[f] = <<>> THEN ArgDefaults[f] ELSE argv[f][1]

\* kick-drift-kick from (p, v), written out from the contract of the stepper
RefStep(p, v) ==
    LET hdt == FMul(Half, self.dtime)
        a0  == _acceleration(p, self.Rc, self.b, self.c)
        vh  == <<v[1] + FMul(hdt, a0[1]), v[2] + FMul(hdt, a0[2]), v[3] + FMul(hdt, a0[3])>>
        p1  == <<p[1] + FMul(self.dtime, vh[1]), p[2] + FMul(self.dtime, vh[2]),
                 p[3] + FMul(self.dtime, vh[3])>>
        a1  == _acceleration(p1, self.Rc, self.b, self.c)
        v1  == <<vh[1] + FMul(hdt, a1[1]), vh[2] + FMul(hdt, a1[2]), vh[3] + FMul(hdt, a1[3])>>
    IN  <<p1, v1>>

----------------------------------------------------------------------------
\* C1: once the first sample is stored, the trajectory holds 1 + (accepted
\* steps) samples; a completed run (nstep >= 1) ends with nstep + 1 samples,
\* a run aborted at step n with n samples, fewer than nstep + 1, so the final
\* length is nstep + 1 exactly when no energy violation was reported.
C1_LengthInvariant ==
    pc \notin InitPcs =>
        /\ Len(self.orbit) = 1 + StepsAccepted
        /\ (pc \in EndedPcs /\ nstep >= 1) =>
              /\ ViolationReports = {} => Len(self.orbit) = nstep + 1
              /\ ViolationReports # {} =>
                    /\ Len(self.orbit) = n
                    /\ Len(self.orbit) < nstep + 1
              /\ (Len(self.orbit) = nstep + 1) <=> (ViolationReports = {})

C1_Witness ==
    /\ pc = "done" /\ nstep = 3
    /\ ViolationReports # {}
    /\ Len(self.orbit) = 2

\* C2: the sample at (zero-based) index i carries time i * dtime; the first
\* sample is the initial position with t = 0, and for dtime > 0 consecutive
\* times differ by exactly dtime.
C2_SampleTimes ==
    pc \notin InitPcs =>
        /\ self.orbit[1] = <<Given("pos")[1], Given("pos")[2], Given("pos")[3], 0>>
        /\ \A i \in 1..Len(self.orbit) : self.orbit[i][4] = (i - 1) * Given("dtime")
        /\ Given("dtime") > 0 =>
              \A i \in 1..(Len(self.orbit) - 1) :
                  /\ self.orbit[i + 1][4] = self.orbit[i][4] + Given("dtime")
                  /\ self.orbit[i + 1][4] > self.orbit[i][4]

C2_Witness ==
    /\ Len(self.orbit) = 4
    /\ self.dtime > 0
    /\ self.orbit[4][4] = 3 * self.dtime

\* C3: at the energy test of step n, a deviation above detol leaves the
\* trajectory as it is and ends the loop, a deviation within detol appends
\* the sample of step n and goes on with the loop; once aborted, no further
\* step is taken and the recorded samples stay unchanged.
C3_AbortOnViolation ==
    [][ /\ pc = "check" =>
             IF Abs(Einit - Enow) > detol
             THEN /\ self'.orbit = self.orbit
                  /\ aborted'
                  /\ pc' \notin LoopPcs
             ELSE /\ self'.orbit = Append(self.orbit, <<pos[1], pos[2], pos[3], tnow>>)
                  /\ ~aborted'
                  /\ pc' = "for"
        /\ aborted =>
             /\ aborted'
             /\ pc' \notin LoopPcs
             /\ n' = n
             /\ self'.orbit = self.orbit ]_vars

C3_Witness ==
    /\ pc = "report" /\ aborted
    /\ n = 2 /\ n < nstep
    /\ Len(self.orbit) = 2

\* C4: every run ends in exactly one of Completed and Aborted after at most
\* nstep steps, with exactly one final report carrying Einit and the time
\* and energy of the last evaluated step, printed after the violation report
\* of an aborted run.
C4_EveryRunReports ==
    pc \in (EndedPcs \ {"report"}) =>
        /\ Completed # Aborted
        /\ n <= nstep
        /\ Cardinality(FinalReports) = 1
        /\ stdout[Len(stdout)] = [kind |-> "final", Einit |-> Fmt(Einit),
                                  t |-> Fmt(self.dtime * n), Enow |-> Fmt(Enow)]
        /\ Aborted => /\ Len(stdout) = 2
                      /\ stdout[1].kind = "violation"
                      /\ self.orbit[Len(self.orbit)][4] # self.dtime * n \/ self.dtime = 0

\* C5 as stated: with detol = 0 and dtime # 0 a run (nstep >= 1) aborts at
\* the first step and keeps only the initial sample.
C5_AlwaysAbortsAtFirstStep ==
    (pc \in EndedPcs /\ nstep >= 1 /\ detol = 0 /\ self.dtime # 0) =>
        /\ aborted
        /\ n = 1
        /\ Len(self.orbit) = 1

\* energy after the first leapfrog step from the initial state
FirstEnergy ==
    LET s == RefStep(Given("pos"), Given("vel"))
    IN  _energy(s[1], s[2], self.Rc, self.b, self.c)

\* C5 amended: with detol = 0 and dtime # 0 the run aborts at the first step,
\* keeping only the initial sample, exactly when a first step is evaluated
\* and its energy differs from Einit; a first step with Enow = Einit (such as
\* a particle at rest at the centre) is accepted.
C5_AbortsIffEnergyDiffers ==
    (pc \in EndedPcs /\ detol = 0 /\ self.dtime # 0) =>
        /\ (aborted /\ n = 1 /\ Len(self.orbit) = 1)
               <=> (nstep >= 1 /\ FirstEnergy # Einit)
        /\ (nstep >= 1 /\ FirstEnergy = Einit) => Len(self.orbit) >= 2

C5_Witness ==
    /\ pc = "done" /\ detol = 0 /\ self.dtime # 0
    /\ Given("pos") = <<0, 0, 0>> /\ Given("vel") = <<0, 0, 0>>
    /\ nstep = 2
    /\ ~aborted /\ Len(self.orbit) = 3

\* C6: every value used by the run is the value of its command-line flag,
\* the default only when the flag is absent; -R gives the Rc of mu2.
C6_FlagsReachIntegrator ==
    pc \notin InitPcs =>
        /\ self.orbit[1] = <<Given("pos")[1], Given("pos")[2], Given("pos")[3], 0>>
        /\ self.vy = Given("vel")[2]
        /\ nstep = Given("nstep")
        /\ self.dtime = Given("dtime")
        /\ detol = Given("detol")
        /\ self.b = Given("b")
        /\ self.c = Given("c")
        /\ self.Rc = Given("R")
        /\ Einit = _energy(Given("pos"), Given("vel"), Given("R"), Given("b"), Given("c"))

Coord(letter) == CASE letter = "X" -> 1 [] letter = "Y" -> 2 [] letter = "Z" -> 3

\* C7: plot(plane) issues exactly one plot call, of the two coordinates
\* named by plane, and labels the axes with the two letters of plane.
C7_OnePlotCall ==
    pc \in {"savefig", "write", "done"} =>
        \E plane \in Planes :
            /\ figure.xlabel = plane[1]
            /\ figure.ylabel = plane[2]
            /\ Len(figure.plots) = 1
            /\ figure.plots[1].h = Coord(plane[1])
            /\ figure.plots[1].v = Coord(plane[2])
            /\ figure.plots[1].xs = Column(self.orbit, Coord(plane[1]))
            /\ figure.plots[1].ys = Column(self.orbit, Coord(plane[2]))

\* C8: the figure and the files change only after the run has reached
\* Completed or Aborted; a stored sample is never changed or removed, and
\* plot, savefig and write leave the trajectory alone; the written table is
\* the header followed by one formatted row per sample, in order.
C8_AppendOnlyThenConsumed ==
    /\ [](pc = "done" =>
            LET out == files[Len(files)].content
            IN  /\ files[Len(files)].ext = ".dat"
                /\ Len(out) = 1 + Len(self.orbit)
                /\ out[1] = <<"x", "y", "z", "time">>
                /\ \A i \in 1..Len(self.orbit) :
                      \A j \in 1..4 : out[i + 1][j] = Fmt(self.orbit[i][j]))
    /\ [][ /\ (figure' # figure \/ files' # files) => (Completed \/ Aborted)
           /\ (pc \notin InitPcs) => IsPrefix(self.orbit, self'.orbit)
           /\ (pc \in ReturnedPcs) => self'.orbit = self.orbit ]_vars

C8_Witness ==
    /\ pc = "done"
    /\ Len(files) = 2
    /\ Len(self.orbit) = 3
    /\ Len(files[2].content) = 4
    /\ self.orbit[3][2] # self.orbit[1][2]

\* C9: a step is acceleration at the old position, half kick, drift with the
\* half-step velocity, acceleration at the new position, half kick: two
\* acceleration evaluations per step, and the energy of the step is that of
\* the pair the step returned.
C9_KickDriftKick ==
    /\ [](pc = "energy" =>
            calls = <<"_acceleration", "kick", "drift", "_acceleration", "kick">>)
    /\ [](pc = "check" =>
            /\ calls = <<"_acceleration", "kick", "drift", "_acceleration", "kick", "_energy">>
            /\ Cardinality({i \in 1..Len(calls) : calls[i] = "_acceleration"}) = 2
            /\ Enow = _energy(pos, vel, self.Rc, self.b, self.c))
    /\ [][pc = "kick2" => <<pos', vel'>> = RefStep(pos, vel)]_vars

C9_Witness ==
    /\ pc = "energy"
    /\ self.dtime # 0
    /\ acc # <<0, 0, 0>>
    /\ pos # Given("pos")
    /\ vel # Given("vel")
    /\ n = 1

\* C10: with nstep <= 0 no step is taken and only the initial sample is
\* recorded; the run is neither Completed nor Aborted, the final report is
\* never printed and __init__ never returns: line 39 raises, after Einit was
\* computed and the initial sample stored.
C10_NoStepsRaises ==
    /\ []((pc \notin InitPcs /\ nstep <= 0) =>
            /\ pc \in {"for", "report", "error"}
            /\ calls = <<>>
            /\ self.orbit = <<<<Given("pos")[1], Given("pos")[2], Given("pos")[3], 0>>>>
            /\ Einit = _energy(Given("pos"), Given("vel"), self.Rc, self.b, self.c)
            /\ stdout = <<>>
            /\ ~Completed /\ ~Aborted)
    /\ [][(pc = "report" /\ nstep <= 0) => pc' = "error"]_vars

C10_Witness ==
    /\ pc = "error"
    /\ nstep = 0
    /\ Len(self.orbit) = 1
    /\ stdout = <<>>

====
